---- MODULE Spec2Model ----
(***************************************************************************)
(* Model of the linear-algebra core of nima-salamat/LinearAlgebra:         *)
(*   src/src/matrix/MatrixOperations.py  (the library the UI calls)        *)
(*   src/src/matrix/test.py              (the raw-data copy with tests)    *)
(*                                                                         *)
(* Numbers.  Python floats are modelled in exact arithmetic as normalised  *)
(* rationals <<n, d>> with d > 0 and gcd(|n|, d) = 1.  An integer k the    *)
(* caller supplies is the number <<k, 1>>.  The tolerance comparisons of   *)
(* the code are kept as comparisons against 10^-12 (10^-9 in test.py).     *)
(*                                                                         *)
(* Indices.  r, lead, i, j are 0-based as in the source; At(M, i, j) is    *)
(* M[i][j].  A matrix is a sequence of rows, a row a sequence of numbers.  *)
(***************************************************************************)
EXTENDS Integers, Sequences, FiniteSets, TLC

VARIABLES
    pc,      \* "idle" before the call, "done" after it returned or raised
    call,    \* the function that was called ("none" before the call)
    A,       \* the caller's matrix object (list of rows) passed to the call
    text,    \* the caller's equation text passed to the parser
    src,     \* the equations the caller wrote out as text (empty for other text)
    result,  \* what the call returned or raised
    steps,   \* how many passes of its pivot loop the call began
    loop     \* the running reduction loop: its matrix M, row r and column lead,
             \* and how many passes used their row r as a pivot row

vars == <<pc, call, A, text, src, result, steps, loop>>

---------------------------------------------------------------------------
(* Bounds of the model *)

MaxVal == 1
MaxCells == 9
MaxCols == 4
MaxDim == 3
MaxTerms == 2
MaxRaw == 4

---------------------------------------------------------------------------
(* Exact numbers *)

Abs(x) == IF x < 0 THEN -x ELSE x

RECURSIVE GCD(_, _)
GCD(a, b) == IF b = 0 THEN a ELSE GCD(b, a % b)

Norm(n, d) ==
    LET s == IF d < 0 THEN -1 ELSE 1
        g == GCD(Abs(n), Abs(d))
    IN  <<(s * n) \div g, (s * d) \div g>>

Num(k) == <<k, 1>>
Zero == Num(0)
One == Num(1)

RAdd(a, b) == Norm(a[1] * b[2] + b[1] * a[2], a[2] * b[2])
RSub(a, b) == Norm(a[1] * b[2] - b[1] * a[2], a[2] * b[2])
RMul(a, b) == Norm(a[1] * b[1], a[2] * b[2])
RDiv(a, b) == Norm(a[1] * b[2], a[2] * b[1])
RAbs(a) == <<Abs(a[1]), a[2]>>

\* 10^-12 is Million^-2 and 10^-9 is Thousand^-3; |n|/d < 1/T  iff  |n| <= (d-1) div T
Million == 1000000
Thousand == 1000

\* abs(x) < 1e-12
BelowTol(x) == Abs(x[1]) <= ((x[2] - 1) \div Million) \div Million
\* abs(x) > 1e-12
AboveTol(x) == Abs(x[1]) > (x[2] \div Million) \div Million
\* abs(x) < 1e-9
BelowTol9(x) == Abs(x[1]) <= (((x[2] - 1) \div Thousand) \div Thousand) \div Thousand
\* abs(x) > 1e-9
AboveTol9(x) == Abs(x[1]) > ((x[2] \div Thousand) \div Thousand) \div Thousand

\* float(x): value preserving on the numbers the caller supplies
Float(x) == Norm(x[1], x[2])

\* f"{x:.k}f" as the integer round(x * 10^k), ties to even; scale = 10^k
Fmt(x, scale) ==
    LET n == Abs(x[1]) * scale
        q == n \div x[2]
        rem == n % x[2]
        up == (2 * rem > x[2]) \/ (2 * rem = x[2] /\ q % 2 = 1)
        m == IF up THEN q + 1 ELSE q
    IN  IF x[1] < 0 THEN -m ELSE m

---------------------------------------------------------------------------
(* Matrices *)

At(M, i, j) == M[i + 1][j + 1]
Row(M, i) == M[i + 1]
Last(row) == row[Len(row)]
Coefs(row) == 1 .. (Len(row) - 1)

\* M with rows i and j exchanged:  M[i], M[j] = M[j], M[i]
SwapRows(M, i, j) ==
    [k \in 1 .. Len(M) |->
        IF k = i + 1 THEN M[j + 1] ELSE IF k = j + 1 THEN M[i + 1] ELSE M[k]]

\* [x / pivot for x in row]
DivRow(row, pivot) == [k \in 1 .. Len(row) |-> RDiv(row[k], pivot)]

\* [a - factor * b for a, b in zip(rowj, rowr)]
SubRow(rowj, factor, rowr) ==
    [k \in 1 .. (IF Len(rowj) < Len(rowr) THEN Len(rowj) ELSE Len(rowr)) |->
        RSub(rowj[k], RMul(factor, rowr[k]))]

\* [list(map(float, row)) for row in aug_matrix]
FloatCopy(M) == [k \in 1 .. Len(M) |-> [c \in 1 .. Len(M[k]) |-> Float(M[k][c])]]

---------------------------------------------------------------------------
(* Elimination engine: MatrixOperations.gauss_jordan_elimination *)

\* i = r; while i < N and abs(M[i][lead]) < 1e-12: i += 1
RECURSIVE FindPivot(_, _, _)
FindPivot(M, i, lead) ==
    IF i < Len(M) /\ BelowTol(At(M, i, lead))
    THEN FindPivot(M, i + 1, lead)
    ELSE i

\* mutant: eliminate column lead only from the rows below r
PivotStep_below(M, r, i, lead) ==
    LET S == SwapRows(M, r, i)
        pivot == At(S, r, lead)
        Mr == DivRow(Row(S, r), pivot)
    IN  [k \in 1 .. Len(M) |->
            IF k = r + 1 THEN Mr
            ELSE IF k < r + 1 THEN S[k]
            ELSE SubRow(S[k], S[k][lead + 1], Mr)]

\* mutant: the pivot row is not divided by the pivot
PivotStep_nonorm(M, r, i, lead) ==
    LET S == SwapRows(M, r, i)
        Mr == Row(S, r)
    IN  [k \in 1 .. Len(M) |->
            IF k = r + 1 THEN Mr ELSE SubRow(S[k], S[k][lead + 1], Mr)]

\* swap rows r and i, normalise row r, eliminate column lead from every other row
PivotStep(M, r, i, lead) ==
    LET S == SwapRows(M, r, i)
        pivot == At(S, r, lead)
        Mr == DivRow(Row(S, r), pivot)
    IN  [k \in 1 .. Len(M) |->
            IF k = r + 1 THEN Mr ELSE SubRow(S[k], S[k][lead + 1], Mr)]

\* one pass of the body of "for r in range(N)" below the break test
GJBody(M, r, lead) ==
    LET i == FindPivot(M, r, lead)
    IN  IF i = Len(M)
        THEN [M |-> M, lead |-> lead + 1]
        ELSE [M |-> PivotStep(M, r, i, lead), lead |-> lead + 1]

\* for r in range(N): if lead >= cols - 1: break; ...
RECURSIVE GJLoop(_, _, _)
GJLoop(M, r, lead) ==
    IF r >= Len(M) \/ lead >= Len(M[1]) - 1
    THEN [M |-> M, r |-> r, lead |-> lead]
    ELSE LET s == GJBody(M, r, lead) IN GJLoop(s.M, r + 1, s.lead)

\* all(abs(x) < 1e-12 for x in row[:-1]) and abs(row[-1]) > 1e-12
ZeroEqualsNonzero(row) ==
    /\ \A k \in Coefs(row) : BelowTol(row[k])
    /\ AboveTol(Last(row))

\* sum(1 for row in M if any(abs(x) > 1e-12 for x in row[:-1]))
PivotRows(M) ==
    Cardinality({k \in 1 .. Len(M) : \E c \in Coefs(M[k]) : AboveTol(M[k][c])})

\* variables[j] for a list input: the name x{j+1}, written as the number j+1
XVar(j) == j + 1

\* d[key] = value on a dict kept as the sequence of its (key, value) items
DictSet(d, key, value) ==
    IF \E k \in 1 .. Len(d) : d[k][1] = key
    THEN [k \in 1 .. Len(d) |-> IF d[k][1] = key THEN <<key, value>> ELSE d[k]]
    ELSE Append(d, <<key, value>>)

\* for j in range(cols - 1): if abs(row[j] - 1) < 1e-12: ...; break
RECURSIVE FirstOne(_, _)
FirstOne(row, j) ==
    IF j >= Len(row) - 1 THEN j
    ELSE IF BelowTol(RSub(row[j + 1], One)) THEN j
    ELSE FirstOne(row, j + 1)

\* for i, row in enumerate(M): solution[variables[j]] = row[-1]
RECURSIVE ExtractSolution(_, _, _)
ExtractSolution(M, i, solution) ==
    IF i >= Len(M) THEN solution
    ELSE LET row == Row(M, i)
             j == FirstOne(row, 0)
         IN  IF j >= Len(row) - 1
             THEN ExtractSolution(M, i + 1, solution)
             ELSE ExtractSolution(M, i + 1, DictSet(solution, XVar(j), Last(row)))

\* "[" + ", ".join(f"{val:.3f}" for val in row) + "]" for row in M
RrefStr(M) == [k \in 1 .. Len(M) |-> [c \in 1 .. Len(M[k]) |-> Fmt(M[k][c], Thousand)]]

\* ", ".join(f"{var} = {value:.3f}" for var, value in solution.items())
SolStr(solution) ==
    [k \in 1 .. Len(solution) |-> <<solution[k][1], Fmt(solution[k][2], Thousand)>>]

\* the classification after the loop and the returned text
Classify(M) ==
    IF \E k \in 1 .. Len(M) : ZeroEqualsNonzero(M[k])
    THEN [kind |-> "inconsistent", rref |-> RrefStr(M), solution |-> <<>>, shown |-> <<>>]
    ELSE IF PivotRows(M) < Len(M[1]) - 1
    THEN [kind |-> "infinite", rref |-> RrefStr(M), solution |-> <<>>, shown |-> <<>>]
    ELSE LET solution == ExtractSolution(M, 0, <<>>)
         IN  [kind |-> "unique", rref |-> RrefStr(M),
              solution |-> solution, shown |-> SolStr(solution)]

\* the loop on the float copy: its final M, r and lead
gauss_jordan_reduce(aug_matrix) == GJLoop(FloatCopy(aug_matrix), 0, 0)

gauss_jordan_elimination(aug_matrix) == Classify(gauss_jordan_reduce(aug_matrix).M)

---------------------------------------------------------------------------
(* Elimination engine, test.py copy: works on the caller's list itself *)

\* i = r; while i < N and aug_matrix[i][lead] == 0: i += 1
RECURSIVE T_FindPivot(_, _, _)
T_FindPivot(M, i, lead) ==
    IF i < Len(M) /\ At(M, i, lead)[1] = 0
    THEN T_FindPivot(M, i + 1, lead)
    ELSE i

T_GJBody(M, r, lead) ==
    LET i == T_FindPivot(M, r, lead)
    IN  IF i = Len(M)
        THEN [M |-> M, lead |-> lead + 1]
        ELSE [M |-> PivotStep(M, r, i, lead), lead |-> lead + 1]

RECURSIVE T_GJLoop(_, _, _)
T_GJLoop(M, r, lead) ==
    IF r >= Len(M) \/ lead >= Len(M[1]) - 1
    THEN [M |-> M, r |-> r, lead |-> lead]
    ELSE LET s == T_GJBody(M, r, lead) IN T_GJLoop(s.M, r + 1, s.lead)

\* "no solution" | "infinite" | [row[-1] for row in aug_matrix]
T_Classify(M) ==
    IF \E k \in 1 .. Len(M) :
          /\ \A c \in Coefs(M[k]) : BelowTol9(M[k][c])
          /\ AboveTol9(Last(M[k]))
    THEN [kind |-> "no solution", solution |-> <<>>]
    ELSE IF Cardinality({k \in 1 .. Len(M) : \E c \in Coefs(M[k]) : AboveTol9(M[k][c])})
            < Len(M[1]) - 1
    THEN [kind |-> "infinite", solution |-> <<>>]
    ELSE [kind |-> "solution", solution |-> [k \in 1 .. Len(M) |-> Last(M[k])]]

\* the caller's list after the call: every assignment is to aug_matrix[...]
T_gauss_jordan_reduce(aug_matrix) == T_GJLoop(aug_matrix, 0, 0)

T_gauss_jordan_elimination(aug_matrix) == T_Classify(T_gauss_jordan_reduce(aug_matrix).M)

---------------------------------------------------------------------------
(* Determinant engine: MatrixOperations.determinant, test.determinant *)

\* mutant: only rows shorter than n are rejected
IsSquare_short(M) == \A k \in 1 .. Len(M) : Len(M[k]) >= Len(M)

\* not any(len(row) != n for row in A)
IsSquare(M) == \A k \in 1 .. Len(M) : Len(M[k]) = Len(M)

RLess(a, b) == a[1] * b[2] < b[1] * a[2]

\* max(range(i, n), key=lambda r: abs(M[r][i])): the first row of largest magnitude
PivotRow(M, i) ==
    CHOOSE p \in i .. (Len(M) - 1) :
        /\ \A q \in i .. (Len(M) - 1) : ~RLess(RAbs(At(M, p, i)), RAbs(At(M, q, i)))
        /\ \A q \in i .. (p - 1) : RLess(RAbs(At(M, q, i)), RAbs(At(M, p, i)))

\* for r in range(i + 1, n): factor = M[r][i] / pivot; M[r][c] -= factor * M[i][c], c >= i
DetEliminate(M, i) ==
    [k \in 1 .. Len(M) |->
        IF k <= i + 1 THEN M[k]
        ELSE LET factor == RDiv(M[k][i + 1], At(M, i, i))
             IN  [c \in 1 .. Len(M[k]) |->
                    IF c < i + 1 \/ c > Len(M) THEN M[k][c]
                    ELSE RSub(M[k][c], RMul(factor, M[i + 1][c]))]]

\* mutant: a row swap does not flip the sign of det
RECURSIVE DetLoop_nosign(_, _, _)
DetLoop_nosign(M, det, i) ==
    IF i >= Len(M)
    THEN [singular |-> FALSE, det |-> det, steps |-> i]
    ELSE LET pivot_row == PivotRow(M, i)
         IN  IF BelowTol(At(M, pivot_row, i))
             THEN [singular |-> TRUE, det |-> Zero, steps |-> i + 1]
             ELSE LET S == SwapRows(M, i, pivot_row)
                  IN  DetLoop_nosign(DetEliminate(S, i), RMul(det, At(S, i, i)), i + 1)

\* for i in range(n): ... ; the running det, whether the short-circuit was taken,
\* and the number of pivot selections made
RECURSIVE DetLoop(_, _, _)
DetLoop(M, det, i) ==
    IF i >= Len(M)
    THEN [singular |-> FALSE, det |-> det, steps |-> i]
    ELSE LET pivot_row == PivotRow(M, i)
         IN  IF BelowTol(At(M, pivot_row, i))
             THEN [singular |-> TRUE, det |-> Zero, steps |-> i + 1]
             ELSE LET S == SwapRows(M, i, pivot_row)
                      d == IF pivot_row # i THEN RMul(det, Num(-1)) ELSE det
                  IN  DetLoop(DetEliminate(S, i), RMul(d, At(S, i, i)), i + 1)

\* MatrixOperations.determinant: the returned text
determinant(M) ==
    IF ~IsSquare(M)
    THEN [kind |-> "Error: Determinant is defined only for square matrices.",
          value |-> 0, steps |-> 0]
    ELSE LET run == DetLoop(FloatCopy(M), One, 0)
         IN  IF run.singular
             THEN [kind |-> "Determinant: 0.0 (matrix is singular)",
                   value |-> 0, steps |-> run.steps]
             ELSE [kind |-> "Determinant:", value |-> Fmt(run.det, Million),
                   steps |-> run.steps]

\* test.determinant: raises ValueError, or returns 0.0 or det (same loop text)
T_determinant(M) ==
    IF ~IsSquare(M)
    THEN [kind |-> "raise ValueError", value |-> Zero, steps |-> 0]
    ELSE LET run == DetLoop(M, One, 0)
         IN  [kind |-> "return", value |-> run.det, steps |-> run.steps]

---------------------------------------------------------------------------
(* Inverse engine: MatrixOperations.inverse, test.inverse *)

\* [[float(i == j) for j in range(n)] for i in range(n)]
Identity(n) == [i \in 1 .. n |-> [j \in 1 .. n |-> IF i = j THEN One ELSE Zero]]

\* mutant: column i is eliminated only from the rows below i
InvStep_below(M, inv, i) ==
    LET pivot == At(M, i, i)
        Mi == DivRow(Row(M, i), pivot)
        invi == DivRow(Row(inv, i), pivot)
    IN  [M |-> [k \in 1 .. Len(M) |->
                  IF k = i + 1 THEN Mi
                  ELSE IF k < i + 1 THEN M[k]
                  ELSE SubRow(M[k], M[k][i + 1], Mi)],
         inv |-> [k \in 1 .. Len(M) |->
                  IF k = i + 1 THEN invi
                  ELSE IF k < i + 1 THEN inv[k]
                  ELSE SubRow(inv[k], M[k][i + 1], invi)]]

\* normalise row i of both halves, eliminate column i from every other row of both
InvStep(M, inv, i) ==
    LET pivot == At(M, i, i)
        Mi == DivRow(Row(M, i), pivot)
        invi == DivRow(Row(inv, i), pivot)
    IN  [M |-> [k \in 1 .. Len(M) |->
                  IF k = i + 1 THEN Mi ELSE SubRow(M[k], M[k][i + 1], Mi)],
         inv |-> [k \in 1 .. Len(M) |->
                  IF k = i + 1 THEN invi ELSE SubRow(inv[k], M[k][i + 1], invi)]]

\* mutant: a below-tolerance pivot column leaves the loop (break) instead of returning
RECURSIVE InvLoop_break(_, _, _)
InvLoop_break(M, inv, i) ==
    IF i >= Len(M)
    THEN [singular |-> FALSE, inv |-> inv, steps |-> i]
    ELSE LET pivot_row == PivotRow(M, i)
         IN  IF BelowTol(At(M, pivot_row, i))
             THEN [singular |-> FALSE, inv |-> inv, steps |-> i + 1]
             ELSE LET s == InvStep(SwapRows(M, i, pivot_row),
                                   SwapRows(inv, i, pivot_row), i)
                  IN  InvLoop_break(s.M, s.inv, i + 1)

\* for i in range(n): ...
RECURSIVE InvLoop(_, _, _)
InvLoop(M, inv, i) ==
    IF i >= Len(M)
    THEN [singular |-> FALSE, inv |-> inv, steps |-> i]
    ELSE LET pivot_row == PivotRow(M, i)
         IN  IF BelowTol(At(M, pivot_row, i))
             THEN [singular |-> TRUE, inv |-> <<>>, steps |-> i + 1]
             ELSE LET s == InvStep(SwapRows(M, i, pivot_row),
                                   SwapRows(inv, i, pivot_row), i)
                  IN  InvLoop(s.M, s.inv, i + 1)

\* "[" + ", ".join(f"{val:.6f}" for val in row) + "]" for row in inv
InvStr(inv) ==
    [k \in 1 .. Len(inv) |-> [c \in 1 .. Len(inv[k]) |-> Fmt(inv[k][c], Million)]]

\* MatrixOperations.inverse: the returned text, and the inv it renders
inverse(M) ==
    IF ~IsSquare(M)
    THEN [kind |-> "Error: Inverse is defined only for square matrices.",
          inv |-> <<>>, shown |-> <<>>, steps |-> 0]
    ELSE LET run == InvLoop(FloatCopy(M), Identity(Len(M)), 0)
         IN  IF run.singular
             THEN [kind |-> "Inverse: Matrix is singular (no inverse).",
                   inv |-> <<>>, shown |-> <<>>, steps |-> run.steps]
             ELSE [kind |-> "Inverse matrix:", inv |-> run.inv,
                   shown |-> InvStr(run.inv), steps |-> run.steps]

\* test.inverse: raises ValueError, or returns None or inv (same loop text)
T_inverse(M) ==
    IF ~IsSquare(M)
    THEN [kind |-> "raise ValueError", inv |-> <<>>, steps |-> 0]
    ELSE LET run == InvLoop(M, Identity(Len(M)), 0)
         IN  IF run.singular
             THEN [kind |-> "return None", inv |-> <<>>, steps |-> run.steps]
             ELSE [kind |-> "return", inv |-> run.inv, steps |-> run.steps]

---------------------------------------------------------------------------
(* Equation parser: MatrixOperations.parse_gauss_jordan_elimination *)
(* A str is the sequence of its characters.                               *)

DigitChars == <<"0", "1", "2", "3", "4", "5", "6", "7", "8", "9">>

\* c.isdigit()
IsDigit(c) == \E d \in 1 .. 10 : DigitChars[d] = c
DigitValue(c) == (CHOOSE d \in 1 .. 10 : DigitChars[d] = c) - 1

IsSpace(c) == c \in {" ", "\n"}

\* text.strip()
RECURSIVE LStrip(_)
LStrip(t) == IF t # <<>> /\ IsSpace(Head(t)) THEN LStrip(Tail(t)) ELSE t
RECURSIVE RStrip(_)
RStrip(t) ==
    IF t # <<>> /\ IsSpace(t[Len(t)]) THEN RStrip(SubSeq(t, 1, Len(t) - 1)) ELSE t
Strip(t) == RStrip(LStrip(t))

\* the pieces of t between the occurrences of sep, like sep.join's inverse
RECURSIVE SplitOn(_, _, _)
SplitOn(t, sep, piece) ==
    IF t = <<>> THEN <<piece>>
    ELSE IF Head(t) = sep THEN <<piece>> \o SplitOn(Tail(t), sep, <<>>)
    ELSE SplitOn(Tail(t), sep, Append(piece, Head(t)))

\* text.splitlines() of a text that does not end with a line break
SplitLines(t) == IF t = <<>> THEN <<>> ELSE SplitOn(t, "\n", <<>>)

\* line.replace(" ", "")
NotBlank(c) == c # " "
RemoveSpaces(line) == SelectSeq(line, NotBlank)

\* int(s) of a digit string
RECURSIVE DigitsValue(_)
DigitsValue(s) ==
    IF s = <<>> THEN 0 ELSE 10 * DigitsValue(SubSeq(s, 1, Len(s) - 1)) + DigitValue(s[Len(s)])

\* int(right): an optional sign and at least one digit, else ValueError
ParseInt(s) ==
    LET signed == s # <<>> /\ Head(s) \in {"+", "-"}
        digits == IF signed THEN Tail(s) ELSE s
    IN  IF digits = <<>> \/ \E k \in 1 .. Len(digits) : ~IsDigit(digits[k])
        THEN [ok |-> FALSE, value |-> 0]
        ELSE [ok |-> TRUE,
              value |-> IF signed /\ Head(s) = "-" THEN -DigitsValue(digits)
                        ELSE DigitsValue(digits)]

\* equation.get(key, 0)
DictGet(d, key) ==
    IF \E k \in 1 .. Len(d) : d[k][1] = key
    THEN d[CHOOSE k \in 1 .. Len(d) : d[k][1] = key][2]
    ELSE 0

\* while i < len(left) and left[i].isdigit(): i += 1
RECURSIVE SkipDigits(_, _)
SkipDigits(left, i) ==
    IF i < Len(left) /\ IsDigit(left[i + 1]) THEN SkipDigits(left, i + 1) ELSE i

\* mutant: variables.append(var) without the "not in" test
Seen_always(variables, var) == Append(variables, var)

\* variables after "if var not in variables: variables.append(var)"
Seen(variables, var) ==
    IF \E k \in 1 .. Len(variables) : variables[k] = var
    THEN variables
    ELSE Append(variables, var)

\* mutant: equation[var] = sign * coef, a repeated variable is not summed
RECURSIVE ScanLeft_overwrite(_, _, _, _)
ScanLeft_overwrite(left, i, equation, variables) ==
    IF i >= Len(left)
    THEN [error |-> "", equation |-> equation, variables |-> variables]
    ELSE LET sign == IF left[i + 1] = "-" THEN -1 ELSE 1
             i1 == IF left[i + 1] \in {"+", "-"} THEN i + 1 ELSE i
             i2 == SkipDigits(left, i1)
             coef_str == SubSeq(left, i1 + 1, i2)
             coef == IF coef_str # <<>> THEN DigitsValue(coef_str) ELSE 1
         IN  IF i2 >= Len(left)
             THEN [error |-> "raise IndexError", equation |-> equation,
                   variables |-> variables]
             ELSE LET var == left[i2 + 1]
                  IN  ScanLeft_overwrite(left, i2 + 1,
                                         DictSet(equation, var, sign * coef),
                                         Seen(variables, var))

\* while i < len(left): sign, digits, one character as the variable
RECURSIVE ScanLeft(_, _, _, _)
ScanLeft(left, i, equation, variables) ==
    IF i >= Len(left)
    THEN [error |-> "", equation |-> equation, variables |-> variables]
    ELSE LET sign == IF left[i + 1] = "-" THEN -1 ELSE 1
             i1 == IF left[i + 1] \in {"+", "-"} THEN i + 1 ELSE i
             i2 == SkipDigits(left, i1)
             coef_str == SubSeq(left, i1 + 1, i2)
             coef == IF coef_str # <<>> THEN DigitsValue(coef_str) ELSE 1
         IN  IF i2 >= Len(left)
             THEN [error |-> "raise IndexError", equation |-> equation,
                   variables |-> variables]
             ELSE LET var == left[i2 + 1]
                  IN  ScanLeft(left, i2 + 1,
                               DictSet(equation, var, DictGet(equation, var) + sign * coef),
                               Seen(variables, var))

\* the body of "for line in lines" for one line
ParseLine(line0, variables) ==
    LET line == RemoveSpaces(line0)
        parts == SplitOn(line, "=", <<>>)
    IN  IF Len(parts) # 2
        THEN [error |-> "raise ValueError", equation |-> <<>>, variables |-> variables]
        ELSE LET scan == ScanLeft(parts[1], 0, <<>>, variables)
                 const == ParseInt(parts[2])
             IN  IF scan.error # "" THEN scan
                 ELSE IF ~const.ok
                 THEN [error |-> "raise ValueError", equation |-> <<>>,
                       variables |-> scan.variables]
                 ELSE [error |-> "",
                       equation |-> DictSet(scan.equation, "const", const.value),
                       variables |-> scan.variables]

\* for line in lines: ...; equations.append(equation)
RECURSIVE ParseLines(_, _, _, _)
ParseLines(lines, k, equations, variables) ==
    IF k > Len(lines)
    THEN [error |-> "", equations |-> equations, variables |-> variables]
    ELSE LET one == ParseLine(lines[k], variables)
         IN  IF one.error # ""
             THEN [error |-> one.error, equations |-> equations, variables |-> variables]
             ELSE ParseLines(lines, k + 1, Append(equations, one.equation), one.variables)

\* row = [eq.get(v, 0) for v in variables]; row.append(eq["const"])
MatrixRow(eq, variables) ==
    [c \in 1 .. (Len(variables) + 1) |->
        IF c <= Len(variables) THEN DictGet(eq, variables[c]) ELSE DictGet(eq, "const")]

parse_gauss_jordan_elimination(t) ==
    LET run == ParseLines(SplitLines(Strip(t)), 1, <<>>, <<>>)
    IN  IF run.error # ""
        THEN [kind |-> run.error, matrix |-> <<>>, variables |-> <<>>]
        ELSE [kind |-> "return",
              matrix |-> [k \in 1 .. Len(run.equations) |->
                             MatrixRow(run.equations[k], run.variables)],
              variables |-> run.variables]

---------------------------------------------------------------------------
(* Inputs *)

\* the scalars a row is multiplied by: -MaxScale .. MaxScale
MaxScale == 2

Vals == {Num(k) : k \in (-MaxVal) .. MaxVal}

\* augmented matrices [A|B]: N >= 1 rows of C >= 2 entries
Augmented ==
    UNION {[1 .. N -> [1 .. C -> Vals]] :
              <<N, C>> \in {s \in (1 .. MaxCells) \X (2 .. MaxCols) : s[1] * s[2] <= MaxCells}}

\* square matrices of n = 0 .. MaxDim rows
Squares == UNION {[1 .. n -> [1 .. n -> Vals]] : n \in 0 .. MaxDim}

\* lists of up to MaxDim rows of any lengths up to MaxDim (square, non-square,
\* ragged); the shape test reads only the lengths, so two entry values suffice
ShapeRows == UNION {[1 .. c -> {Zero, One}] : c \in 0 .. MaxDim}
Shapes == UNION {[1 .. n -> ShapeRows] : n \in 0 .. MaxDim}

NoResult == [kind |-> "none"]

\* no reduction loop is running
NoLoop == [M |-> <<>>, r |-> 0, lead |-> 0, pivots |-> 0]

Drop(rec) == [f \in DOMAIN rec \ {"steps"} |-> rec[f]]

---------------------------------------------------------------------------
(* Equation texts *)

\* A written-out system is a sequence of terms; a term that ends its equation
\* carries the equation's constant.  sign is "", "+" or "-"; coef 0 stands for
\* no written coefficient.
Terms ==
    [sign : {"", "+", "-"}, coef : {0, 2, 13}, var : {"x", "y"},
     ends : BOOLEAN, const : {5}]
    \cup [sign : {"", "+", "-"}, coef : {0, 2, 13}, var : {"x", "y"},
          ends : {TRUE}, const : {-40}]

Systems ==
    {s \in UNION {[1 .. n -> Terms] : n \in 1 .. MaxTerms} : s[Len(s)].ends}

\* the decimal digits of n >= 0
RECURSIVE Decimal(_)
Decimal(n) ==
    IF n < 10 THEN <<DigitChars[n + 1]>>
    ELSE Append(Decimal(n \div 10), DigitChars[(n % 10) + 1])

Signed(n) == IF n < 0 THEN <<"-">> \o Decimal(-n) ELSE Decimal(n)

\* the text of a system: terms run together, "=" and the constant end an
\* equation, equations are separated by line breaks; pad is "" or " "
RECURSIVE Render(_, _, _)
Render(s, k, pad) ==
    IF k > Len(s) THEN <<>>
    ELSE LET t == s[k]
             term == (IF t.sign = "" THEN <<>> ELSE <<t.sign>>)
                     \o (IF t.coef = 0 THEN <<>> ELSE Decimal(t.coef))
                     \o <<t.var>>
             tail == IF ~t.ends THEN <<>>
                     ELSE pad \o <<"=">> \o pad \o Signed(t.const)
                          \o (IF k < Len(s) THEN <<"\n">> ELSE <<>>)
         IN  term \o tail \o Render(s, k + 1, pad)

\* the lines a caller may leave between two equations: one empty line, one
\* line of a space, two empty lines
Gaps == {<<"\n">>, <<" ", "\n">>, <<"\n", "\n">>}

\* the text t with gap put after every line break
RECURSIVE Spread(_, _)
Spread(t, gap) ==
    IF t = <<>> THEN <<>>
    ELSE IF Head(t) = "\n" THEN <<"\n">> \o gap \o Spread(Tail(t), gap)
    ELSE <<Head(t)>> \o Spread(Tail(t), gap)

\* any short text over these characters
RawChars == {"x", "y", "2", "+", "-", "=", " ", "\n", "*"}
RawTexts == UNION {[1 .. n -> RawChars] : n \in 0 .. MaxRaw}

---------------------------------------------------------------------------
(* The calls *)

InitSolve ==
    /\ pc = "idle"
    /\ call \in {"gauss_jordan_elimination", "T_gauss_jordan_elimination"}
    /\ A \in Augmented
    /\ text = <<>>
    /\ src = <<>>
    /\ result = NoResult
    /\ steps = 0
    /\ loop = NoLoop

\* MatrixOperations.gauss_jordan_elimination(A)
Solve ==
    /\ pc = "idle"
    /\ call = "gauss_jordan_elimination"
    /\ result' = gauss_jordan_elimination(A)
    /\ steps' = gauss_jordan_reduce(A).r
    /\ pc' = "done"
    /\ UNCHANGED <<call, A, text, src, loop>>

\* test.gauss_jordan_elimination(A)
T_Solve ==
    /\ pc = "idle"
    /\ call = "T_gauss_jordan_elimination"
    /\ A' = T_gauss_jordan_reduce(A).M
    /\ result' = T_gauss_jordan_elimination(A)
    /\ steps' = T_gauss_jordan_reduce(A).r
    /\ pc' = "done"
    /\ UNCHANGED <<call, text, src, loop>>

NextSolve == Solve \/ T_Solve

SpecSolve == InitSolve /\ [][NextSolve]_vars

InitSquare ==
    /\ pc = "idle"
    /\ call \in {"determinant", "inverse", "T_determinant", "T_inverse"}
    /\ A \in Squares \cup Shapes
    /\ text = <<>>
    /\ src = <<>>
    /\ result = NoResult
    /\ steps = 0
    /\ loop = NoLoop

\* MatrixOperations.determinant(A)
Determinant ==
    /\ pc = "idle"
    /\ call = "determinant"
    /\ result' = Drop(determinant(A))
    /\ steps' = determinant(A).steps
    /\ pc' = "done"
    /\ UNCHANGED <<call, A, text, src, loop>>

\* MatrixOperations.inverse(A)
Inverse ==
    /\ pc = "idle"
    /\ call = "inverse"
    /\ result' = Drop(inverse(A))
    /\ steps' = inverse(A).steps
    /\ pc' = "done"
    /\ UNCHANGED <<call, A, text, src, loop>>

\* test.determinant(A)
T_Determinant ==
    /\ pc = "idle"
    /\ call = "T_determinant"
    /\ result' = Drop(T_determinant(A))
    /\ steps' = T_determinant(A).steps
    /\ pc' = "done"
    /\ UNCHANGED <<call, A, text, src, loop>>

\* test.inverse(A)
T_Inverse ==
    /\ pc = "idle"
    /\ call = "T_inverse"
    /\ result' = Drop(T_inverse(A))
    /\ steps' = T_inverse(A).steps
    /\ pc' = "done"
    /\ UNCHANGED <<call, A, text, src, loop>>

NextSquare == Determinant \/ Inverse \/ T_Determinant \/ T_Inverse

SpecSquare == InitSquare /\ [][NextSquare]_vars

InitParse ==
    /\ pc = "idle"
    /\ call = "parse_gauss_jordan_elimination"
    /\ A = <<>>
    /\ \/ /\ src = <<>>
          /\ text \in RawTexts
       \/ /\ src \in Systems
          /\ text \in {Render(src, 1, <<>>), Render(src, 1, <<" ">>)}
                      \cup {Spread(Render(src, 1, <<>>), gap) : gap \in Gaps}
    /\ result = NoResult
    /\ steps = 0
    /\ loop = NoLoop

\* MatrixOperations.parse_gauss_jordan_elimination(text)
Parse ==
    /\ pc = "idle"
    /\ call = "parse_gauss_jordan_elimination"
    /\ result' = parse_gauss_jordan_elimination(text)
    /\ pc' = "done"
    /\ UNCHANGED <<call, A, text, src, steps, loop>>

NextParse == Parse

SpecParse == InitParse /\ [][NextParse]_vars

\* everything the caller can ask of the core
Init == InitSolve \/ InitSquare \/ InitParse
Next == NextSolve \/ NextSquare \/ NextParse
Spec == Init /\ [][Next]_vars

\* every engine call on a matrix
InitEngines == InitSolve \/ InitSquare
NextEngines == NextSolve \/ NextSquare
SpecEngines == InitEngines /\ [][NextEngines]_vars

---------------------------------------------------------------------------
(* The reduction loop of gauss_jordan_elimination, one pass at a time *)

InitReduce == InitSolve

\* for r in range(N) is over, or: if lead >= cols - 1: break
LoopOver(f) == f.r >= Len(f.M) \/ f.lead >= Len(f.M[1]) - 1

\* M = [list(map(float, row)) for row in aug_matrix]; lead = 0; r = 0
Enter ==
    /\ pc = "idle"
    /\ call = "gauss_jordan_elimination"
    /\ loop' = [M |-> FloatCopy(A), r |-> 0, lead |-> 0, pivots |-> 0]
    /\ pc' = "loop"
    /\ UNCHANGED <<call, A, text, src, result, steps>>

\* one pass of the for body, then the for statement's next r
Pass ==
    /\ pc = "loop"
    /\ call = "gauss_jordan_elimination"
    /\ ~LoopOver(loop)
    /\ LET s == GJBody(loop.M, loop.r, loop.lead)
           i == FindPivot(loop.M, loop.r, loop.lead)
       IN  loop' = [M |-> s.M, r |-> loop.r + 1, lead |-> s.lead,
                    pivots |-> IF i = Len(loop.M) THEN loop.pivots ELSE loop.pivots + 1]
    /\ UNCHANGED <<pc, call, A, text, src, result, steps>>

\* the code after the loop: classification and the returned text
Leave ==
    /\ pc = "loop"
    /\ call = "gauss_jordan_elimination"
    /\ LoopOver(loop)
    /\ result' = Classify(loop.M)
    /\ steps' = loop.r
    /\ pc' = "done"
    /\ UNCHANGED <<call, A, text, src, loop>>

\* test.gauss_jordan_elimination: M is the caller's list itself
T_Enter ==
    /\ pc = "idle"
    /\ call = "T_gauss_jordan_elimination"
    /\ loop' = [M |-> A, r |-> 0, lead |-> 0, pivots |-> 0]
    /\ pc' = "loop"
    /\ UNCHANGED <<call, A, text, src, result, steps>>

T_Pass ==
    /\ pc = "loop"
    /\ call = "T_gauss_jordan_elimination"
    /\ ~LoopOver(loop)
    /\ LET s == T_GJBody(loop.M, loop.r, loop.lead)
           i == T_FindPivot(loop.M, loop.r, loop.lead)
       IN  /\ loop' = [M |-> s.M, r |-> loop.r + 1, lead |-> s.lead,
                        pivots |-> IF i = Len(loop.M) THEN loop.pivots ELSE loop.pivots + 1]
           /\ A' = s.M
    /\ UNCHANGED <<pc, call, text, src, result, steps>>

T_Leave ==
    /\ pc = "loop"
    /\ call = "T_gauss_jordan_elimination"
    /\ LoopOver(loop)
    /\ result' = T_Classify(loop.M)
    /\ steps' = loop.r
    /\ pc' = "done"
    /\ UNCHANGED <<call, A, text, src, loop>>

NextReduce == Enter \/ Pass \/ Leave \/ T_Enter \/ T_Pass \/ T_Leave

SpecReduce == InitReduce /\ [][NextReduce]_vars

---------------------------------------------------------------------------
(* Reference mathematics on the integer inputs, independent of the engines *)

\* the integer entries of a caller matrix
Ints(M) == [k \in 1 .. Len(M) |-> [c \in 1 .. Len(M[k]) |-> M[k][c][1]]]

\* M without its first row and without column j
Cofactor(M, j) ==
    [k \in 1 .. (Len(M) - 1) |->
        [c \in 1 .. (Len(M) - 1) |-> IF c < j THEN M[k + 1][c] ELSE M[k + 1][c + 1]]]

RECURSIVE SumTo(_, _)
SumTo(f, n) == IF n = 0 THEN 0 ELSE f[n] + SumTo(f, n - 1)

\* the determinant by cofactor expansion along the first row
RECURSIVE IntDet(_)
IntDet(M) ==
    IF Len(M) = 0 THEN 1
    ELSE SumTo([j \in 1 .. Len(M) |->
                   (IF j % 2 = 1 THEN 1 ELSE -1) * M[1][j] * IntDet(Cofactor(M, j))],
               Len(M))

Sorted(S) ==
    CHOOSE f \in [1 .. Cardinality(S) -> S] : \A a, b \in 1 .. Cardinality(S) : a < b => f[a] < f[b]

\* the square submatrix of M on rows R and columns Cs
Minor(M, R, Cs) ==
    LET rs == Sorted(R)
        cs == Sorted(Cs)
    IN  [k \in 1 .. Cardinality(R) |-> [c \in 1 .. Cardinality(Cs) |-> M[rs[k]][cs[c]]]]

\* the rank of the columns Cols of M: the size of a largest nonzero minor
Rank(M, Cols) ==
    LET sizes == {0} \cup
            {k \in 1 .. Cardinality(Cols) :
                \E R \in SUBSET (1 .. Len(M)), Cs \in SUBSET Cols :
                    /\ Cardinality(R) = k
                    /\ Cardinality(Cs) = k
                    /\ IntDet(Minor(M, R, Cs)) # 0}
    IN  CHOOSE k \in sizes : \A q \in sizes : q <= k

\* Rouche-Capelli: the number of solutions of A.x = B for the augmented matrix M
NoSolution(M) == Rank(M, 1 .. (Len(M[1]) - 1)) < Rank(M, 1 .. Len(M[1]))
OneSolution(M) ==
    /\ ~NoSolution(M)
    /\ Rank(M, 1 .. (Len(M[1]) - 1)) = Len(M[1]) - 1
ManySolutions(M) ==
    /\ ~NoSolution(M)
    /\ Rank(M, 1 .. (Len(M[1]) - 1)) < Len(M[1]) - 1

RECURSIVE RSum(_, _)
RSum(f, n) == IF n = 0 THEN Zero ELSE RAdd(f[n], RSum(f, n - 1))

\* the matrix product of two lists of rows
Product(P, Q) ==
    [i \in 1 .. Len(P) |->
        [j \in 1 .. Len(Q) |-> RSum([k \in 1 .. Len(Q) |-> RMul(P[i][k], Q[k][j])], Len(Q))]]

Returned(f) == pc = "done" /\ call = f

---------------------------------------------------------------------------
(* C1 *)

\* C1: gauss_jordan_elimination reports inconsistent exactly when A.x = B has no
\* solution, unique exactly when it has one, infinite exactly when it has more.
C1_ClassifiesCorrectly ==
    Returned("gauss_jordan_elimination") =>
        /\ result.kind = "inconsistent" <=> NoSolution(Ints(A))
        /\ result.kind = "unique" <=> OneSolution(Ints(A))
        /\ result.kind = "infinite" <=> ManySolutions(Ints(A))

---------------------------------------------------------------------------
(* C2 *)

\* the value a solution dict holds for variable v
ValueOf(solution, v) == solution[CHOOSE k \in 1 .. Len(solution) : solution[k][1] = v][2]

\* row . x = constant for the values of the solution dict
Satisfies(row, solution) ==
    RSum([c \in Coefs(row) |-> RMul(row[c], ValueOf(solution, XVar(c - 1)))], Len(row) - 1)
        = Last(row)

\* C2: when gauss_jordan_elimination reports a unique solution, the extracted
\* mapping holds exactly one value for each of the C-1 variables and the values
\* satisfy every equation of the caller's system.
C2_UniqueSolutionSolves ==
    (Returned("gauss_jordan_elimination") /\ result.kind = "unique") =>
        /\ Len(result.solution) = Len(A[1]) - 1
        /\ {result.solution[k][1] : k \in 1 .. Len(result.solution)}
              = {XVar(j) : j \in 0 .. (Len(A[1]) - 2)}
        /\ \A k \in 1 .. Len(A) : Satisfies(A[k], result.solution)

\* a unique solution of a system with more rows than variables, not all values integers
C2_Witness ==
    /\ Returned("gauss_jordan_elimination")
    /\ result.kind = "unique"
    /\ Len(A) > Len(A[1]) - 1
    /\ Len(A[1]) >= 3
    /\ \E k \in 1 .. Len(result.solution) : result.solution[k][2][2] > 1

---------------------------------------------------------------------------
(* C3 *)

\* C3: for a square integer matrix with n in 0..MaxDim, determinant returns the
\* mathematical (cofactor-expansion) determinant: the rendered 6-decimal value in
\* MatrixOperations.py, the raw value in test.py, and the singular short-circuit
\* is taken only when the determinant is 0.
C3_DeterminantIsCofactorValue ==
    /\ (Returned("determinant") /\ IsSquare(A)) =>
          \/ /\ result.kind = "Determinant: 0.0 (matrix is singular)"
             /\ IntDet(Ints(A)) = 0
          \/ /\ result.kind = "Determinant:"
             /\ result.value = IntDet(Ints(A)) * Million
    /\ (Returned("T_determinant") /\ IsSquare(A)) =>
          /\ result.kind = "return"
          /\ result.value = Num(IntDet(Ints(A)))

\* a 3x3 determinant that needed a row swap in the first column and is negative
C3_Witness ==
    /\ Returned("determinant")
    /\ IsSquare(A)
    /\ Len(A) = 3
    /\ A[1][1] = Zero
    /\ result.kind = "Determinant:"
    /\ result.value < 0
    /\ steps = 3

---------------------------------------------------------------------------
(* C4 *)

\* C4: for a square matrix with nonzero determinant, inverse returns a matrix
\* (not the singular result) and A . inverse(A) is the identity, exactly.
C4_InverseIsRightInverse ==
    /\ (Returned("inverse") /\ IsSquare(A) /\ IntDet(Ints(A)) # 0) =>
          /\ result.kind = "Inverse matrix:"
          /\ Product(A, result.inv) = Identity(Len(A))
    /\ (Returned("T_inverse") /\ IsSquare(A) /\ IntDet(Ints(A)) # 0) =>
          /\ result.kind = "return"
          /\ Product(A, result.inv) = Identity(Len(A))

\* a 3x3 inverse with a fractional entry, found after a row swap in the first column
C4_Witness ==
    /\ Returned("inverse")
    /\ IsSquare(A)
    /\ Len(A) = 3
    /\ A[1][1] = Zero
    /\ result.kind = "Inverse matrix:"
    /\ \E k, c \in 1 .. 3 : result.inv[k][c][2] > 1

---------------------------------------------------------------------------
(* C5 *)

\* abs(det) < 1e-12 for the det the determinant engine computes
DetIsZero(M) == BelowTol(DetLoop(FloatCopy(M), One, 0).det)

---------------------------------------------------------------------------
(* C9 *)

\* C9: no engine call (gauss_jordan_elimination, determinant, inverse, in either
\* file) changes the caller's matrix: its list of rows and every row are the same
\* after the call as before.
C9_NoCallMutatesCaller == [][A' = A]_vars

---------------------------------------------------------------------------
(* C10 *)

ShapeErrors ==
    {"Error: Determinant is defined only for square matrices.",
     "Error: Inverse is defined only for square matrices.",
     "raise ValueError"}

\* some row is not as long as the row count
BadShape(M) == \E k \in DOMAIN M : Cardinality(DOMAIN M[k]) # Cardinality(DOMAIN M)

\* C10: determinant and inverse end with the shape error exactly for the inputs
\* whose rows are not all as long as the row count, and then no pass of the pivot
\* loop was begun.
C10_ShapeErrorFirst ==
    (pc = "done" /\ call \in {"determinant", "inverse", "T_determinant", "T_inverse"}) =>
        /\ result.kind \in ShapeErrors <=> BadShape(A)
        /\ BadShape(A) => steps = 0

\* a ragged input whose first row has the right length, rejected by determinant
C10_Witness ==
    /\ Returned("determinant")
    /\ Len(A) = 2
    /\ Len(A[1]) = 2
    /\ Len(A[2]) = 3
    /\ result.kind = "Error: Determinant is defined only for square matrices."
    /\ steps = 0

---------------------------------------------------------------------------
(* C6, C7: the parser on the text of a written-out system *)

\* the equation (1-based) that term k of a system belongs to
EqOf(s, k) == 1 + Cardinality({j \in 1 .. (k - 1) : s[j].ends})
NumEqs(s) == Cardinality({j \in 1 .. Len(s) : s[j].ends})
TermsOf(s, e) == {k \in 1 .. Len(s) : EqOf(s, k) = e}
VarsOf(s) == {s[k].var : k \in 1 .. Len(s)}
FirstAt(s, v) == CHOOSE k \in 1 .. Len(s) : s[k].var = v /\ \A j \in 1 .. (k - 1) : s[j].var # v
ConstOf(s, e) == s[CHOOSE k \in TermsOf(s, e) : s[k].ends].const

\* sign x magnitude of a written term
TermValue(t) == (IF t.sign = "-" THEN -1 ELSE 1) * (IF t.coef = 0 THEN 1 ELSE t.coef)

RECURSIVE SumOver(_, _)
SumOver(S, f) ==
    IF S = {} THEN 0 ELSE LET k == CHOOSE k \in S : TRUE IN f[k] + SumOver(S \ {k}, f)

\* some line between the first and the last character of t that is not blank
\* is empty or all spaces
HasBlankLine(t) ==
    LET lines == SplitLines(Strip(t))
    IN  \E k \in 1 .. Len(lines) : RemoveSpaces(lines[k]) = <<>>

\* the parser returned or raised on the text of a system written one equation
\* per line, no line left blank
Parsed ==
    /\ Returned("parse_gauss_jordan_elimination")
    /\ src # <<>>
    /\ ~HasBlankLine(text)

\* C6: for the text of a well-formed system the parser returns each distinct
\* variable once, in order of first appearance across all lines, and one row per
\* equation in line order, each of len(variables)+1 entries: 0 where the variable
\* does not occur in the equation, and the integer right-hand side last.
C6_VariablesAndShape ==
    Parsed =>
        /\ result.kind = "return"
        /\ Len(result.variables) = Cardinality(VarsOf(src))
        /\ {result.variables[c] : c \in 1 .. Len(result.variables)} = VarsOf(src)
        /\ \A a, b \in 1 .. Len(result.variables) :
              a < b => FirstAt(src, result.variables[a]) < FirstAt(src, result.variables[b])
        /\ Len(result.matrix) = NumEqs(src)
        /\ \A e \in 1 .. Len(result.matrix) :
              /\ Len(result.matrix[e]) = Len(result.variables) + 1
              /\ result.matrix[e][Len(result.variables) + 1] = ConstOf(src, e)
              /\ \A c \in 1 .. Len(result.variables) :
                    (\A k \in TermsOf(src, e) : src[k].var # result.variables[c])
                        => result.matrix[e][c] = 0

\* two spaced lines; the second line's variable is new and comes second
C6_Witness ==
    /\ Parsed
    /\ NumEqs(src) = 2
    /\ \E k \in 1 .. Len(text) : text[k] = " "
    /\ result.kind = "return"
    /\ result.variables = <<"y", "x">>
    /\ result.matrix[1] = <<13, 0, 5>>
    /\ result.matrix[2] = <<0, -1, -40>>

\* C7: the entry for variable v in an equation's row is the sum, over the terms
\* of v on that line's left-hand side, of sign x magnitude (no digits: 1).
C7_CoefficientsSummed ==
    (Parsed /\ result.kind = "return" /\ Len(result.matrix) = NumEqs(src)) =>
        \A e \in 1 .. Len(result.matrix) :
            \A c \in 1 .. (Len(result.matrix[e]) - 1) :
                result.matrix[e][c] =
                    SumOver({k \in TermsOf(src, e) : src[k].var = result.variables[c]},
                            [k \in 1 .. Len(src) |-> TermValue(src[k])])

\* one equation with a variable written twice: 2x and -13x
C7_Witness ==
    /\ Parsed
    /\ NumEqs(src) = 1
    /\ Len(src) = 2
    /\ \A k \in 1 .. 2 : src[k].var = "x"
    /\ src[1].sign = "" /\ src[1].coef = 2
    /\ src[2].sign = "-" /\ src[2].coef = 13
    /\ result.kind = "return"
    /\ result.matrix = <<<<-11, src[2].const>>>>

---------------------------------------------------------------------------
(* C8 *)

Letters ==
    {"a", "b", "c", "d", "e", "f", "g", "h", "i", "j", "k", "l", "m",
     "n", "o", "p", "q", "r", "s", "t", "u", "v", "w", "x", "y", "z"}

\* the part of a line before its first "="
RECURSIVE LeftOf(_)
LeftOf(line) ==
    IF line = <<>> \/ Head(line) = "=" THEN <<>> ELSE <<Head(line)>> \o LeftOf(Tail(line))

\* a line with no "=", or a left-hand side with a character that is no sign,
\* digit or letter, or one that ends in a sign or a coefficient
Malformed(line) ==
    LET left == LeftOf(line)
    IN  \/ \A k \in 1 .. Len(line) : line[k] # "="
        \/ \E k \in 1 .. Len(left) :
              ~(left[k] \in {"+", "-"} \/ IsDigit(left[k]) \/ left[k] \in Letters)
        \/ (left # <<>> /\ (left[Len(left)] \in {"+", "-"} \/ IsDigit(left[Len(left)])))

LinesOf(t) ==
    LET lines == SplitLines(Strip(t))
    IN  [k \in 1 .. Len(lines) |-> RemoveSpaces(lines[k])]

\* C8: the parser ends with an error, never a returned matrix, for every text
\* with a malformed line.
C8_MalformedFails ==
    (Returned("parse_gauss_jordan_elimination")
        /\ LET lines == LinesOf(text)
           IN  \E k \in 1 .. Len(lines) : Malformed(lines[k]))
        => result.kind # "return"

---------------------------------------------------------------------------
(* C11 *)

\* the reduction loop of MatrixOperations.gauss_jordan_elimination has ended
Reduced == Returned("gauss_jordan_elimination") /\ loop # NoLoop

\* C11: the reduction loop run again on the matrix M1 it left (r = 0, lead = 0)
\* leaves exactly M1, whatever the shape and the zero columns of the input.
C11_ReduceIdempotent ==
    Reduced => GJLoop(loop.M, 0, 0).M = loop.M

\* fewer rows than variables, an all-zero coefficient column, and a first run
\* that changed the matrix
C11_Witness ==
    /\ Reduced
    /\ Len(A) < Len(A[1]) - 1
    /\ \E c \in Coefs(A[1]) : \A k \in 1 .. Len(A) : A[k][c] = Zero
    /\ loop.M # FloatCopy(A)
    /\ GJLoop(loop.M, 0, 0).M = loop.M

---------------------------------------------------------------------------
(* C12, C13, C14: algebraic laws of the determinant *)

\* a determinant call returned for a square matrix
DetReturned(f) == Returned(f) /\ ~BadShape(A)

\* the transpose of a square matrix
Transpose(M) == [j \in 1 .. Len(M) |-> [i \in 1 .. Len(M) |-> M[i][j]]]

\* C12: determinant of the transpose of a square matrix is the result determinant
\* gave for the matrix itself: the same text and value in MatrixOperations.py,
\* the same number in test.py, singular matrices included.
C12_TransposeSameDeterminant ==
    /\ DetReturned("determinant") => Drop(determinant(Transpose(A))) = result
    /\ DetReturned("T_determinant") => Drop(T_determinant(Transpose(A))) = result

\* a singular 3x3 matrix for which the short-circuit is taken at a different
\* pass than for its transpose
C12_Witness ==
    /\ DetReturned("determinant")
    /\ Len(A) = 3
    /\ result.kind = "Determinant: 0.0 (matrix is singular)"
    /\ determinant(Transpose(A)).steps # steps
    /\ Drop(determinant(Transpose(A))) = result

\* the negation of what determinant returned: the text with the value negated
Negated(rec) == [rec EXCEPT !.value = 0 - rec.value]

\* C13: for distinct rows p and q of a square matrix, determinant of the matrix
\* with rows p and q exchanged is minus what determinant gave for the matrix.
C13_RowSwapNegates ==
    /\ DetReturned("determinant") =>
          \A p, q \in 0 .. (Len(A) - 1) :
              p # q => Drop(determinant(SwapRows(A, p, q))) = Negated(result)
    /\ DetReturned("T_determinant") =>
          \A p, q \in 0 .. (Len(A) - 1) :
              p # q => Drop(T_determinant(SwapRows(A, p, q))) =
                          [result EXCEPT !.value = RMul(Num(-1), result.value)]

\* a 3x3 matrix of determinant 2 or -2 whose first two rows tie in column 0: the
\* pivot selection picks row 0 before and after rows 0 and 1 are exchanged
C13_Witness ==
    /\ DetReturned("determinant")
    /\ Len(A) = 3
    /\ A[1][1] # Zero /\ A[2][1] # Zero
    /\ PivotRow(FloatCopy(A), 0) = 0
    /\ PivotRow(FloatCopy(SwapRows(A, 0, 1)), 0) = 0
    /\ result.kind = "Determinant:"
    /\ Abs(result.value) = 2 * Million
    /\ determinant(SwapRows(A, 0, 1)).value = 0 - result.value

Scalars == (-MaxScale) .. MaxScale

\* row p (0-based) of M multiplied by the integer k
ScaleRow(M, p, k) ==
    [i \in 1 .. Len(M) |->
        IF i = p + 1 THEN [j \in 1 .. Len(M[i]) |-> RMul(Num(k), M[i][j])] ELSE M[i]]

\* C14: for a row p of a square matrix and a scalar k, determinant of the matrix
\* with row p multiplied by k has k times the value determinant gave for the
\* matrix, and for k # 0 the same kind of result.
C14_RowScalingScales ==
    /\ DetReturned("determinant") =>
          \A p \in 0 .. (Len(A) - 1) : \A k \in Scalars :
              LET scaled == determinant(ScaleRow(A, p, k))
              IN  /\ scaled.value = k * result.value
                  /\ k # 0 => scaled.kind = result.kind
    /\ DetReturned("T_determinant") =>
          \A p \in 0 .. (Len(A) - 1) : \A k \in Scalars :
              LET scaled == T_determinant(ScaleRow(A, p, k))
              IN  /\ scaled.value = RMul(Num(k), result.value)
                  /\ scaled.kind = result.kind

\* a 3x3 matrix of nonzero determinant: multiplying row 1 by -2 moves the first
\* pivot to row 1 and gives -2 times the value, multiplying it by 0 gives the
\* singular result
C14_Witness ==
    /\ DetReturned("determinant")
    /\ Len(A) = 3
    /\ result.kind = "Determinant:"
    /\ result.value # 0
    /\ PivotRow(FloatCopy(A), 0) = 0
    /\ PivotRow(FloatCopy(ScaleRow(A, 1, -2)), 0) = 1
    /\ determinant(ScaleRow(A, 1, -2)).value = (-2) * result.value
    /\ determinant(ScaleRow(A, 1, 0)).kind = "Determinant: 0.0 (matrix is singular)"

---------------------------------------------------------------------------
(* C15 *)

\* the rows of M with a nonzero coefficient
NonzeroRows(M) == {k \in 1 .. Len(M) : \E c \in Coefs(M[k]) : M[k][c] # Zero}

\* the column of the first nonzero coefficient of a nonzero row
PivotCol(row) == CHOOSE c \in Coefs(row) : row[c] # Zero /\ \A b \in 1 .. (c - 1) : row[b] = Zero

\* reduced row-echelon form of the coefficient part
IsRref(M) ==
    /\ \A k \in NonzeroRows(M) :
          /\ M[k][PivotCol(M[k])] = One
          /\ \A j \in 1 .. Len(M) : j # k => M[j][PivotCol(M[k])] = Zero
    /\ \A k, j \in NonzeroRows(M) : k < j => PivotCol(M[k]) < PivotCol(M[j])

\* C15: when the reduction loop has finished, the matrix it leaves is in reduced
\* row-echelon form: every nonzero row starts with a 1 that is alone in its
\* column, and the pivot columns increase strictly from row to row.
C15_LoopLeavesRref ==
    Reduced => IsRref(loop.M)

---------------------------------------------------------------------------
(* C16 *)

\* column lead holds no pivot candidate in the rows r .. N-1
NoCandidate ==
    \A i \in loop.r .. (Len(loop.M) - 1) :
        IF call = "gauss_jordan_elimination"
        THEN BelowTol(At(loop.M, i, loop.lead))
        ELSE At(loop.M, i, loop.lead) = Zero

\* C16: a pass that finds no pivot candidate in column lead advances lead by 1
\* and keeps r and the matrix, and the loop is left only when lead has reached
\* the constant column or all N rows have been used as pivot rows.
C16_SkipRetriesRow ==
    [][/\ (pc = "loop" /\ pc' = "loop" /\ NoCandidate) =>
              /\ loop'.lead = loop.lead + 1
              /\ loop'.r = loop.r
              /\ loop'.M = loop.M
       /\ (pc = "loop" /\ pc' = "done") =>
              \/ loop.lead >= Len(loop.M[1]) - 1
              \/ loop.pivots = Len(loop.M)]_vars

---------------------------------------------------------------------------
(* C17 *)

\* the lines of t that are not blank, joined by line breaks
RECURSIVE JoinLines(_, _)
JoinLines(lines, k) ==
    IF k > Len(lines) THEN <<>>
    ELSE IF RemoveSpaces(lines[k]) = <<>> THEN JoinLines(lines, k + 1)
    ELSE lines[k] \o (IF \E j \in (k + 1) .. Len(lines) : RemoveSpaces(lines[j]) # <<>>
                      THEN <<"\n">> ELSE <<>>)
         \o JoinLines(lines, k + 1)

WithoutBlankLines(t) == JoinLines(SplitLines(Strip(t)), 1)

\* C17: the parser gives for a text what it gives for the text with its empty
\* and all-space lines removed, and a returned matrix has one row per line
\* that is not blank.
C17_BlankLinesIgnored ==
    Returned("parse_gauss_jordan_elimination") =>
        /\ result = parse_gauss_jordan_elimination(WithoutBlankLines(text))
        /\ result.kind = "return" =>
              Len(result.matrix) = Len(SplitLines(WithoutBlankLines(text)))

====
